---- MODULE Spec2Model ----
(***************************************************************************)
(* Protocol adapters of buttplug-rs (LeloF1s, Lovense, PrettyLove, Realov) *)
(* and the GenericCommandManager they share.                               *)
(*                                                                         *)
(* One behaviour follows one device of one family: its construction (the   *)
(* Lovense identification handshake of try_create, or a static             *)
(* construction), then handle() calls, each a cooperative task that moves  *)
(* from one await to the next.                                             *)
(*                                                                         *)
(* Conventions.                                                            *)
(*  - A normalized target (f64 in the source) is an exact rational <<n,d>>.*)
(*  - Option<T> is a sequence of length 0 (None) or 1 (Some).              *)
(*  - A transport payload is the sequence of its bytes (LeloF1s,           *)
(*    PrettyLove, Realov) or of its text tokens (Lovense).                 *)
(*  - write_value() returns a lazy future: the write reaches the device    *)
(*    when the future is awaited, and an await either succeeds or fails.   *)
(***************************************************************************)
EXTENDS Integers, Sequences, FiniteSets, TLC

VARIABLES
  family,             \* the adapter family of the device under study
  mode,               \* "seq": handle() calls one after another; "conc": overlapping
  stream,             \* what the notification stream will yield first
  cpc,                \* position of try_create / of the construction
  hs,                 \* completed construction steps, in order
  cerr,               \* error construction ended with ("none" while there is none)
  subscribed,         \* the Rx subscription is active
  identifier,         \* Option<String>: the variant token parsed by try_create
  attrs,              \* message_attributes of the adapter: step counts per kind
  stop_commands,      \* the adapter's precomputed stop commands
  vibrations,         \* GenericCommandManager: last quantized speed per vibrator
  rotations,          \* GenericCommandManager: last <<speed, clockwise>> per rotator
  lock,               \* holder of the async Mutex around the manager (0: free)
  rotation_direction, \* Lovense: AtomicBool
  calls,              \* the handle() tasks
  dev,                \* what the device last received: speeds, direction
  last,               \* summary of the handle() call that returned most recently
  write_failed        \* some transport write of a handle() call has failed

vars == <<family, mode, stream, cpc, hs, cerr, subscribed, identifier, attrs,
          stop_commands, vibrations, rotations, lock, rotation_direction,
          calls, dev, last, write_failed>>

createVars == <<stream, cpc, hs, cerr, subscribed, identifier, attrs, stop_commands>>
identVars  == <<family, mode>>

-----------------------------------------------------------------------------
(* Bounds *)

\* number of handle() tasks that may be in flight at once in mode "conc"
MaxCalls == 2

Calls == 1..MaxCalls

-----------------------------------------------------------------------------
(* Generic helpers *)

None == <<>>
Some(x) == <<x>>
IsSome(o) == Len(o) = 1
Unwrap(o) == o[1]

Min(a, b) == IF a < b THEN a ELSE b

Range(s) == {s[i] : i \in 1..Len(s)}

-----------------------------------------------------------------------------
(* Numbers: f64 targets as exact rationals <<n, d>>, d > 0 *)

Zero    == <<0, 1>>
Eighth  == <<1, 8>>
Tenth   == <<1, 10>>
Half    == <<1, 2>>
One     == <<1, 1>>
TooBig  == <<11, 10>>
Negative == <<-1, 10>>

InUnit(t) == t[1] >= 0 /\ t[1] <= t[2]

\* floor of a rational (Integers' \div rounds towards minus infinity)
Floor(n, d) == n \div d

\* round-half-up of t * steps
RoundHalfUp(t, steps) == Floor(2 * t[1] * steps + t[2], 2 * t[2])

\* Rust `(t * k) as u8`: truncation towards zero, saturating at 0 and 255
TruncateAsU8(t, k) ==
  IF t[1] < 0 THEN 0 ELSE Min(Floor(t[1] * k, t[2]), 255)

\* Rust `v as u8` of a u32: wraps modulo 2^8
U32AsU8(v) == v % 256

-----------------------------------------------------------------------------
(* Device Capability Registry: DeviceProtocolConfiguration::get_attributes *)

NoAttrs == [name |-> "", vibrate |-> <<>>, rotate |-> <<>>]

\* identifier (a text, as the sequence of its tokens) -> Option<attributes>;
\* step counts per feature and per kind
get_attributes(id) ==
  CASE id = <<"F1s">>        -> Some([name |-> "Lelo F1s", vibrate |-> <<100, 100>>, rotate |-> <<>>])
    [] id = <<"P">>          -> Some([name |-> "Lovense Edge", vibrate |-> <<20, 20>>, rotate |-> <<>>])
    [] id = <<"A">>          -> Some([name |-> "Lovense Nora", vibrate |-> <<20>>, rotate |-> <<20>>])
    [] id = <<"PrettyLove">> -> Some([name |-> "Pretty Love", vibrate |-> <<3>>, rotate |-> <<>>])
    [] id = <<"Realov">>     -> Some([name |-> "Realov", vibrate |-> <<50>>, rotate |-> <<>>])
    [] OTHER                 -> None

\* the identifier a statically constructed family is looked up by
StaticIdentifier(f) ==
  CASE f = "LeloF1s" -> <<"F1s">> [] f = "PrettyLove" -> <<"PrettyLove">>
    [] OTHER -> <<"Realov">>

-----------------------------------------------------------------------------
(* Messages: VibrateCmd, RotateCmd, StopDeviceCmd *)

Sub(i, t, cw) == [index |-> i, speed |-> t, clockwise |-> cw]

VibrateCmd(subs) == [kind |-> "Vibrate", subs |-> subs]
RotateCmd(subs)  == [kind |-> "Rotate", subs |-> subs]
StopDeviceCmd    == [kind |-> "Stop", subs |-> <<>>]
NoCmd            == [kind |-> "none", subs |-> <<>>]

-----------------------------------------------------------------------------
(* GenericCommandManager *)

\* a target quantized to a feature's step count
Quantize(t, steps) == RoundHalfUp(t, steps)

\* subcommand count is 1 or the feature count, every index addresses a
\* feature, every target lies in [0, 1]
ValidSubs(subs, steps) ==
  /\ Len(subs) \in {1, Len(steps)}
  /\ \A k \in 1..Len(subs) :
       /\ subs[k].index >= 0 /\ subs[k].index < Len(steps)
       /\ InUnit(subs[k].speed)

RECURSIVE ApplyVibration(_, _, _, _)
\* the subcommands in order: a changed feature gets its new value in the
\* cache and in the result, an unchanged one is skipped
ApplyVibration(cache, out, subs, steps) ==
  IF subs = <<>> THEN [cache |-> cache, out |-> out]
  ELSE LET i == Head(subs).index + 1
           q == Quantize(Head(subs).speed, steps[i])
       IN IF q # cache[i]
          THEN ApplyVibration([cache EXCEPT ![i] = q], [out EXCEPT ![i] = Some(q)],
                              Tail(subs), steps)
          ELSE ApplyVibration(cache, out, Tail(subs), steps)

\* Result<Option<Vec<Option<u32>>>>: [err, cache, result]
update_vibration(cache, steps, subs, match_all) ==
  IF ~ValidSubs(subs, steps)
  THEN [err |-> TRUE, cache |-> cache, result |-> None]
  ELSE LET r == ApplyVibration(cache, [i \in 1..Len(steps) |-> None], subs, steps)
       IN IF \A i \in 1..Len(steps) : r.out[i] = None
          THEN [err |-> FALSE, cache |-> r.cache, result |-> None]
          ELSE [err |-> FALSE, cache |-> r.cache,
                result |-> Some(IF match_all
                                THEN [i \in 1..Len(steps) |-> Some(r.cache[i])]
                                ELSE r.out)]

RECURSIVE ApplyRotation(_, _, _, _)
ApplyRotation(cache, out, subs, steps) ==
  IF subs = <<>> THEN [cache |-> cache, out |-> out]
  ELSE LET i == Head(subs).index + 1
           q == <<Quantize(Head(subs).speed, steps[i]), Head(subs).clockwise>>
       IN IF q # cache[i]
          THEN ApplyRotation([cache EXCEPT ![i] = q], [out EXCEPT ![i] = Some(q)],
                             Tail(subs), steps)
          ELSE ApplyRotation(cache, out, Tail(subs), steps)

\* Result<Vec<Option<(u32, bool)>>>: [err, cache, result]
update_rotation(cache, steps, subs) ==
  IF ~ValidSubs(subs, steps)
  THEN [err |-> TRUE, cache |-> cache, result |-> <<>>]
  ELSE LET r == ApplyRotation(cache, [i \in 1..Len(steps) |-> None], subs, steps)
       IN [err |-> FALSE, cache |-> r.cache, result |-> r.out]

\* one command per kind the device has features of, every feature to rest
get_stop_commands(a) ==
  (IF Len(a.vibrate) > 0
   THEN <<VibrateCmd([i \in 1..Len(a.vibrate) |-> Sub(i - 1, Zero, FALSE)])>>
   ELSE <<>>)
  \o
  (IF Len(a.rotate) > 0
   THEN <<RotateCmd([i \in 1..Len(a.rotate) |-> Sub(i - 1, Zero, FALSE)])>>
   ELSE <<>>)

\* GenericCommandManager::new: every cached value at rest
NewVibrations(a) == [i \in 1..Len(a.vibrate) |-> 0]
NewRotations(a)  == [i \in 1..Len(a.rotate) |-> <<0, FALSE>>]

-----------------------------------------------------------------------------
(* Text: format!("{}", n) and the tokens of the Lovense commands *)

Digit(n) ==
  CASE n = 0 -> "0" [] n = 1 -> "1" [] n = 2 -> "2" [] n = 3 -> "3" [] n = 4 -> "4"
    [] n = 5 -> "5" [] n = 6 -> "6" [] n = 7 -> "7" [] n = 8 -> "8" [] OTHER -> "9"

DigitValue(c) == CHOOSE n \in 0..9 : Digit(n) = c

RECURSIVE ToDecimal(_)
\* the decimal digits of a natural number, most significant first
ToDecimal(n) == IF n < 10 THEN <<Digit(n)>> ELSE ToDecimal(n \div 10) \o <<Digit(n % 10)>>

RECURSIVE FromDecimal(_)
FromDecimal(ds) ==
  IF ds = <<>> THEN 0
  ELSE 10 * FromDecimal(SubSeq(ds, 1, Len(ds) - 1)) + DigitValue(ds[Len(ds)])

\* position of the first element of s equal to x; Len(s) + 1 when there is none
RECURSIVE IndexOf(_, _, _)
IndexOf(s, x, from) ==
  IF from > Len(s) THEN Len(s) + 1
  ELSE IF s[from] = x THEN from ELSE IndexOf(s, x, from + 1)

\* str.split(':')[0]: the text before the first ':' (all of it when there is none)
SplitFirst(text) == SubSeq(text, 1, IndexOf(text, ":", 1) - 1)

\* std::str::from_utf8 succeeds
IsUtf8(bytes) == \A i \in 1..Len(bytes) : bytes[i] # "0xFF"

-----------------------------------------------------------------------------
(* Translation of a Command Manager result into transport payloads *)

\* the handler without its `if let Some(cmds) = result`: a write whatever the
\* manager has answered
LeloF1sWritesUnconditional(result) ==
  IF result = None THEN << <<1>> >>
  ELSE LET cmds == Unwrap(result)
       IN << <<1>> \o [i \in 1..Len(cmds) |-> U32AsU8(Unwrap(cmds[i]))] >>

\* a packet without its leading 0x01
LeloF1sWritesNoHeader(result) ==
  IF result = None THEN <<>>
  ELSE LET cmds == Unwrap(result)
       IN << [i \in 1..Len(cmds) |-> U32AsU8(Unwrap(cmds[i]))] >>

\* LeloF1s: 0x01, then the speed of every feature (match_all: all are Some)
LeloF1sWrites(result) ==
  IF result = None THEN <<>>
  ELSE LET cmds == Unwrap(result)
       IN << <<1>> \o [i \in 1..Len(cmds) |-> U32AsU8(Unwrap(cmds[i]))] >>

\* the aggregate test without its comparison of the slots
LovenseFirstIsSome(cmds) == IsSome(cmds[1])

\* Lovense: every motor gets the same new speed
LovenseAllEqual(cmds) ==
  /\ IsSome(cmds[1])
  /\ (Len(cmds) = 1 \/ \A k \in 1..(Len(cmds) - 1) : cmds[k] = cmds[k + 1])

LovenseVibrateAll(speed) == <<"Vibrate", ":">> \o ToDecimal(speed) \o <<";">>

\* a format string without the motor's number
LovenseVibrateOneUnaddressed(i, speed) ==
  <<"Vibrate", ":">> \o ToDecimal(speed) \o <<";">>

\* i counts from 1 here, as the `i + 1` of the source does
LovenseVibrateOne(i, speed) ==
  <<"Vibrate">> \o ToDecimal(i) \o <<":">> \o ToDecimal(speed) \o <<";">>

RECURSIVE LovenseVibrateEach(_, _)
\* one write per motor whose slot is Some, in index order, from motor i on
LovenseVibrateEach(cmds, i) ==
  IF i > Len(cmds) THEN <<>>
  ELSE (IF IsSome(cmds[i]) THEN <<LovenseVibrateOne(i, Unwrap(cmds[i]))>> ELSE <<>>)
       \o LovenseVibrateEach(cmds, i + 1)

LovenseVibrateWrites(result) ==
  IF result = None THEN <<>>
  ELSE LET cmds == Unwrap(result)
       IN IF LovenseAllEqual(cmds)
          THEN <<LovenseVibrateAll(Unwrap(cmds[1]))>>
          ELSE LovenseVibrateEach(cmds, 1)

LovenseRotate(speed) == <<"Rotate", ":">> \o ToDecimal(speed) \o <<";">>
LovenseRotateChange  == <<"RotateChange", ";">>

\* Realov: [0xc5, 0x55, speed, 0xaa], speed = (speeds[0].speed * 50.0) as u8
RealovWrite(subs) == <<197, 85, TruncateAsU8(subs[1].speed, 50), 170>>

\* PrettyLove: [0x00, speed], speed = (speeds[0].speed * 3.0) as u8, 0 sent as 0xff
PrettyLoveWrite(subs) ==
  LET speed == TruncateAsU8(subs[1].speed, 3)
  IN <<0, IF speed = 0 THEN 255 ELSE speed>>

-----------------------------------------------------------------------------
(* The device: what a delivered payload sets. A PrettyLove reads 0xff as *)
(* speed 0, which is how its handler sends 0.                            *)

NewDevice(a) ==
  [vibrate |-> [i \in 1..Len(a.vibrate) |-> 0], rotate |-> 0, clockwise |-> FALSE]

LovenseDeliver(d, p) ==
  LET colon == IndexOf(p, ":", 1)
      value == FromDecimal(SubSeq(p, colon + 1, Len(p) - 1))
  IN CASE p[1] = "RotateChange" -> [d EXCEPT !.clockwise = ~d.clockwise]
       [] p[1] = "Rotate"       -> [d EXCEPT !.rotate = value]
       [] p[1] = "Vibrate" /\ colon = 2 ->
            [d EXCEPT !.vibrate = [i \in 1..Len(d.vibrate) |-> value]]
       [] OTHER ->
            LET i == FromDecimal(SubSeq(p, 2, colon - 1))
            IN IF i \in 1..Len(d.vibrate) THEN [d EXCEPT !.vibrate[i] = value] ELSE d

Deliver(f, d, p) ==
  CASE f = "Lovense"    -> LovenseDeliver(d, p)
    [] f = "LeloF1s"    -> [d EXCEPT !.vibrate = Tail(p)]
    [] f = "Realov"     -> [d EXCEPT !.vibrate = <<p[3]>>]
    [] OTHER            -> [d EXCEPT !.vibrate = <<IF p[2] = 255 THEN 0 ELSE p[2]>>]

-----------------------------------------------------------------------------
(* Inputs *)

Families == {"LeloF1s", "Lovense", "PrettyLove", "Realov"}

\* families whose handlers go through a GenericCommandManager behind a Mutex
Managed(f) == f \in {"LeloF1s", "Lovense"}

Event(kind, payload) == [kind |-> kind, payload |-> payload]

\* first event of the notification stream: an identification response (of an
\* Edge, of a Nora, of an unknown variant, without a ':', not UTF-8), the
\* removal of the device, the end of the stream, or nothing at all
Streams ==
  { Event("Notification", <<"P", ":", "1", "1", ";">>),
    Event("Notification", <<"A", ":", "1", "3", ";">>),
    Event("Notification", <<"Z", ":", "0", "1", ";">>),
    Event("Notification", <<"P", ";">>),
    Event("Notification", <<"P", "0xFF", ":">>),
    Event("Removed", <<>>),
    Event("Closed", <<>>),
    Event("Silent", <<>>) }

Speeds == {Zero, Eighth, Half}

\* commands submitted one after another: one or two vibrators addressed,
\* out-of-range targets, three subcommands, rotation, stop
SeqCommands ==
  { VibrateCmd(<<Sub(i, t, FALSE)>>) : i \in {0, 1}, t \in Speeds }
  \cup { VibrateCmd(<<Sub(0, Half, FALSE), Sub(1, Half, FALSE)>>),
         VibrateCmd(<<Sub(0, Eighth, FALSE), Sub(1, Half, FALSE)>>),
         VibrateCmd(<<Sub(0, Half, FALSE), Sub(1, Eighth, FALSE)>>),
         VibrateCmd(<<Sub(0, TooBig, FALSE)>>),
         VibrateCmd(<<Sub(0, Negative, FALSE)>>),
         VibrateCmd(<<Sub(0, Half, FALSE), Sub(1, Half, FALSE), Sub(0, Half, FALSE)>>) }
  \cup { RotateCmd(<<Sub(0, Half, cw)>>) : cw \in BOOLEAN }
  \cup { RotateCmd(<<Sub(0, Zero, FALSE)>>),
         RotateCmd(<<Sub(0, TooBig, TRUE)>>),
         StopDeviceCmd }

\* commands submitted while others are in flight
ConcCommands ==
  { VibrateCmd(<<Sub(0, Half, FALSE)>>),
    RotateCmd(<<Sub(0, Half, TRUE)>>),
    StopDeviceCmd }

Commands(m) == IF m = "seq" THEN SeqCommands ELSE ConcCommands

-----------------------------------------------------------------------------
(* State *)

IdleCall ==
  [pc |-> "idle", cmd |-> NoCmd, todo |-> <<>>, cur |-> NoCmd, res |-> None,
   futs |-> <<>>, issued |-> <<>>, ret |-> "none",
   nonzero |-> FALSE, changed |-> {}, failed |-> 0]

NoLast == [cmd |-> NoCmd, ret |-> "none"]

\* Lovense::new, LeloF1s::new, PrettyLove::new, Realov::new
Constructed(a) ==
  /\ attrs' = a
  /\ stop_commands' = get_stop_commands(a)
  /\ vibrations' = NewVibrations(a)
  /\ rotations' = NewRotations(a)
  /\ rotation_direction' = FALSE
  /\ dev' = NewDevice(a)

InitMode(m) ==
  /\ mode = m
  /\ family \in Families
  /\ stream \in Streams
  /\ hs = <<>>
  /\ cerr = "none"
  /\ subscribed = FALSE
  /\ identifier = None
  /\ lock = 0
  /\ rotation_direction = FALSE
  /\ calls = [c \in Calls |-> IdleCall]
  /\ last = NoLast
  /\ write_failed = FALSE
  /\ IF family = "Lovense"
     THEN /\ cpc = "subscribe"
          /\ attrs = NoAttrs
          /\ stop_commands = <<>>
          /\ vibrations = <<>>
          /\ rotations = <<>>
          /\ dev = NewDevice(NoAttrs)
     ELSE LET a == Unwrap(get_attributes(StaticIdentifier(family)))
          IN /\ stream = Event("Closed", <<>>)
             /\ cpc = "created"
             /\ attrs = a
             /\ stop_commands = get_stop_commands(a)
             /\ vibrations = NewVibrations(a)
             /\ rotations = NewRotations(a)
             /\ dev = NewDevice(a)

Init == InitMode("seq")

InitConc == InitMode("conc")

managerVars == <<vibrations, rotations, lock, rotation_direction>>
callVars    == <<calls, dev, last, write_failed>>

-----------------------------------------------------------------------------
(* Lovense::try_create: one action per await that completes *)

FailCreate(e) ==
  /\ cpc' = "failed"
  /\ cerr' = e
  /\ UNCHANGED <<identVars, stream, identifier, attrs, stop_commands,
                 managerVars, callVars>>

\* subscribe_fut.await?
SubscribeOk ==
  /\ cpc = "subscribe"
  /\ cpc' = "write"
  /\ subscribed' = TRUE
  /\ hs' = Append(hs, "subscribe")
  /\ UNCHANGED <<identVars, stream, cerr, identifier, attrs, stop_commands,
                 managerVars, callVars>>

SubscribeErr ==
  /\ cpc = "subscribe"
  /\ FailCreate("TransportError")
  /\ UNCHANGED <<hs, subscribed>>

\* info_fut.await without the `?`: the error of the write is dropped
InfoWriteErrIgnored ==
  /\ cpc = "write"
  /\ cpc' = "wait"
  /\ UNCHANGED <<identVars, stream, hs, cerr, subscribed, identifier, attrs,
                 stop_commands, managerVars, callVars>>

\* info_fut.await?: the write of "DeviceType;"
InfoWriteOk ==
  /\ cpc = "write"
  /\ cpc' = "wait"
  /\ hs' = Append(hs, "write")
  /\ UNCHANGED <<identVars, stream, cerr, subscribed, identifier, attrs,
                 stop_commands, managerVars, callVars>>

InfoWriteErr ==
  /\ cpc = "write"
  /\ FailCreate("TransportError")
  /\ UNCHANGED <<hs, subscribed>>

\* event_receiver.next().await yields Notification: the payload is decoded
\* and the identifier parsed before anything else is awaited
EventNotification ==
  /\ cpc = "wait"
  /\ stream.kind = "Notification"
  /\ IF IsUtf8(stream.payload)
     THEN /\ identifier' = Some(SplitFirst(stream.payload))
          /\ hs' = hs \o <<"event", "parse">>
          /\ cpc' = "unsubscribe"
     ELSE /\ identifier' = identifier
          /\ hs' = Append(hs, "event")
          /\ cpc' = "panicked"
  /\ UNCHANGED <<identVars, stream, cerr, subscribed, attrs, stop_commands,
                 managerVars, callVars>>

\* a match without its Removed arm: the event is taken for a notification
\* with an empty payload
EventRemovedUnnoticed ==
  /\ cpc = "wait"
  /\ stream.kind = "Removed"
  /\ identifier' = Some(<<>>)
  /\ hs' = hs \o <<"event", "parse">>
  /\ cpc' = "unsubscribe"
  /\ UNCHANGED <<identVars, stream, cerr, subscribed, attrs, stop_commands,
                 managerVars, callVars>>

\* ... yields Removed
EventRemoved ==
  /\ cpc = "wait"
  /\ stream.kind = "Removed"
  /\ FailCreate("ProtocolSpecificError")
  /\ hs' = Append(hs, "event")
  /\ UNCHANGED subscribed

\* ... yields None: the stream has ended
EventNone ==
  /\ cpc = "wait"
  /\ stream.kind = "Closed"
  /\ FailCreate("ProtocolSpecificError")
  /\ UNCHANGED <<hs, subscribed>>

\* unsubscribe_fut.await?, then the Registry lookup and Lovense::new
UnsubscribeOk ==
  /\ cpc = "unsubscribe"
  /\ subscribed' = FALSE
  /\ hs' = hs \o <<"unsubscribe", "lookup">>
  /\ LET found == get_attributes(Unwrap(identifier))
     IN IF IsSome(found)
        THEN /\ cpc' = "created"
             /\ Constructed(Unwrap(found))
        ELSE /\ cpc' = "panicked"
             /\ UNCHANGED <<attrs, stop_commands, vibrations, rotations,
                            rotation_direction, dev>>
  /\ UNCHANGED <<identVars, stream, cerr, identifier, lock, calls, last, write_failed>>

UnsubscribeErr ==
  /\ cpc = "unsubscribe"
  /\ FailCreate("TransportError")
  /\ UNCHANGED <<hs, subscribed>>

try_create ==
  \/ SubscribeOk
  \/ SubscribeErr
  \/ InfoWriteOk
  \/ InfoWriteErr
  \/ EventNotification
  \/ EventRemoved
  \/ EventNone
  \/ UnsubscribeOk
  \/ UnsubscribeErr

-----------------------------------------------------------------------------
(* handle(): one task per command, one action per step between two awaits *)

InFlight(c) == calls[c].pc # "idle"

\* The history fields of a call (issued, nonzero, changed, failed) and `last`
\* are kept for calls submitted one after another only.
Recorded(x, otherwise) == IF mode = "seq" THEN x ELSE otherwise

\* the call returns e (Ok or an error); futures not yet awaited are dropped
Return(call, e) == [call EXCEPT !.pc = "done", !.ret = e, !.futs = <<>>, !.res = None]

\* write_value(DeviceWriteCmd::new(Endpoint::Tx, p, false)) for each p of ps
WriteValue(call, ps) ==
  [call EXCEPT !.issued = Recorded(@ \o ps, <<>>), !.futs = @ \o ps]

\* The handler of command m is called: its synchronous part runs up to its
\* first await. The handlers of LeloF1s and Lovense first wait for the
\* manager; those of Realov and PrettyLove create their write at once; a
\* family without a rotation handler refuses RotateCmd.
HandleCommand(call, m) ==
  LET next == [call EXCEPT !.cur = m]
  IN IF m.kind = "Rotate" /\ family # "Lovense"
     THEN Return(next, "UnsupportedCommandError")
     ELSE IF Managed(family) THEN [next EXCEPT !.pc = "lock"]
     ELSE IF family = "Realov"
          THEN [WriteValue(next, <<RealovWrite(m.subs)>>) EXCEPT !.pc = "await"]
     ELSE [WriteValue(next, <<PrettyLoveWrite(m.subs)>>) EXCEPT !.pc = "await"]

\* A handler has returned Ok: the next command of the call is handled, and
\* the call returns Ok when there is none left.
Proceed(call) ==
  IF call.todo = <<>> THEN Return(call, "Ok")
  ELSE HandleCommand([call EXCEPT !.todo = Tail(@), !.res = None], Head(call.todo))

\* some cached speed is not 0
NonZeroCache ==
  \/ \E i \in 1..Len(vibrations) : vibrations[i] # 0
  \/ \E i \in 1..Len(rotations) : rotations[i][1] # 0

\* the features whose cached value an update has replaced
Changed(kind, old, new) == {<<kind, i>> : i \in {j \in 1..Len(old) : old[j] # new[j]}}

\* A command is submitted. Stop is replayed as the adapter's stop commands.
\* Commands submitted one after another are all handled by task 1.
Start(c, cmd) ==
  /\ cpc = "created"
  /\ calls[c].pc = "idle"
  /\ mode = "seq" => c = 1
  /\ calls' = [o \in Calls |->
                 IF o = c
                 THEN Proceed([IdleCall EXCEPT
                         !.cmd = cmd,
                         !.todo = IF cmd.kind = "Stop" THEN stop_commands ELSE <<cmd>>,
                         !.nonzero = Recorded(NonZeroCache, FALSE)])
                 ELSE calls[o]]
  /\ UNCHANGED <<identVars, createVars, managerVars, dev, last, write_failed>>

\* a lock that does not wait for its holder to release it
AcquireUnguarded(c) ==
  /\ calls[c].pc = "lock"
  /\ lock' = c
  /\ calls' = [calls EXCEPT ![c].pc = "update"]
  /\ UNCHANGED <<identVars, createVars, vibrations, rotations, rotation_direction,
                 dev, last, write_failed>>

\* manager.lock().await
Acquire(c) ==
  /\ calls[c].pc = "lock"
  /\ lock = 0
  /\ lock' = c
  /\ calls' = [calls EXCEPT ![c].pc = "update"]
  /\ UNCHANGED <<identVars, createVars, vibrations, rotations, rotation_direction,
                 dev, last, write_failed>>

\* a guard bound to a variable of the handler: held until the handler ends
LockHeldByHandler(c) == c

\* the holder of the Mutex once the statement that locked it has ended: the
\* guard is a temporary of that statement
LockAfterUpdate(c) == 0

\* the writes a handler creates from the result res of the update
Translated(kind, res) ==
  IF kind = "Vibrate"
  THEN IF family = "LeloF1s" THEN LeloF1sWrites(res) ELSE LovenseVibrateWrites(res)
  ELSE IF IsSome(res[1]) THEN <<LovenseRotate(Unwrap(res[1])[1])>> ELSE <<>>

\* from the result of the update to the first await of a write, or to the
\* end of the handler when there is nothing to write; handle_rotate_cmd
\* keeps the result for the direction it holds
AfterUpdate(call, res) ==
  LET ps == Translated(call.cur.kind, res)
  IN IF ps = <<>> THEN Proceed(call)
     ELSE [WriteValue(call, ps) EXCEPT
             !.pc = "await",
             !.res = IF call.cur.kind = "Rotate" THEN res ELSE None]

\* update_vibration(&msg, match_all)? / update_rotation(&msg)? under the
\* lock, which the end of the statement releases; then the handler runs on
\* to its first await
Update(c) ==
  /\ calls[c].pc = "update"
  /\ lock = c
  /\ lock' = LockAfterUpdate(c)
  /\ LET call == calls[c]
     IN IF call.cur.kind = "Vibrate"
        THEN LET r == update_vibration(vibrations, attrs.vibrate, call.cur.subs,
                                       family = "LeloF1s")
                 seen == [call EXCEPT !.changed =
                            Recorded(@ \cup Changed("Vibrate", vibrations, r.cache), {})]
             IN /\ vibrations' = r.cache
                /\ calls' = [calls EXCEPT ![c] =
                     IF r.err THEN Return(call, "ValidationError")
                     ELSE AfterUpdate(seen, r.result)]
                /\ UNCHANGED rotations
        ELSE LET r == update_rotation(rotations, attrs.rotate, call.cur.subs)
                 seen == [call EXCEPT !.changed =
                            Recorded(@ \cup Changed("Rotate", rotations, r.cache), {})]
             IN /\ rotations' = r.cache
                /\ calls' = [calls EXCEPT ![c] =
                     IF r.err THEN Return(call, "ValidationError")
                     ELSE AfterUpdate(seen, r.result)]
                /\ UNCHANGED vibrations
  /\ UNCHANGED <<identVars, createVars, rotation_direction, dev, last, write_failed>>

\* fut.await succeeds: the device has the payload
AwaitOk(c) ==
  /\ calls[c].pc = "await"
  /\ calls[c].futs # <<>>
  /\ LET call == calls[c]
         rest == Tail(call.futs)
     IN /\ dev' = Deliver(family, dev, Head(call.futs))
        /\ calls' = [calls EXCEPT ![c] =
             IF rest # <<>> THEN [call EXCEPT !.futs = rest]
             ELSE IF call.res # None THEN [call EXCEPT !.futs = rest, !.pc = "direction"]
             ELSE Proceed([call EXCEPT !.futs = rest])]
  /\ UNCHANGED <<identVars, createVars, managerVars, last, write_failed>>

\* the call notes which of its writes has failed: the position, among the
\* writes it has created, of the future whose await returns the error
FailedAt(call) ==
  [call EXCEPT !.failed = Recorded(Len(call.issued) - Len(call.futs) + 1, 0)]

\* an error that is dropped: the handler goes on as after a success
AwaitErrSwallowed(c) ==
  /\ calls[c].pc = "await"
  /\ calls[c].futs # <<>>
  /\ LET call == calls[c]
         rest == Tail(call.futs)
     IN calls' = [calls EXCEPT ![c] =
          IF rest # <<>> THEN [call EXCEPT !.futs = rest]
          ELSE IF call.res # None THEN [call EXCEPT !.futs = rest, !.pc = "direction"]
          ELSE Proceed([call EXCEPT !.futs = rest])]
  /\ write_failed' = TRUE
  /\ UNCHANGED <<identVars, createVars, managerVars, dev, last>>

\* a failure path that clears the cache before it returns the error
AwaitErrClearsCache(c) ==
  /\ calls[c].pc = "await"
  /\ calls[c].futs # <<>>
  /\ calls' = [calls EXCEPT ![c] = Return(FailedAt(calls[c]), "TransportError")]
  /\ vibrations' = NewVibrations(attrs)
  /\ rotations' = NewRotations(attrs)
  /\ write_failed' = TRUE
  /\ UNCHANGED <<identVars, createVars, lock, rotation_direction, dev, last>>

\* fut.await? fails: the handler returns the error
AwaitErr(c) ==
  /\ calls[c].pc = "await"
  /\ calls[c].futs # <<>>
  /\ calls' = [calls EXCEPT ![c] = Return(FailedAt(calls[c]), "TransportError")]
  /\ write_failed' = TRUE
  /\ UNCHANGED <<identVars, createVars, managerVars, dev, last>>

\* Lovense::handle_rotate_cmd after the speed write: the direction flag is
\* compared with the requested direction, stored, and RotateChange written
Direction(c) ==
  /\ calls[c].pc = "direction"
  /\ LET call == calls[c]
         clockwise == Unwrap(call.res[1])[2]
     IN IF rotation_direction # clockwise
        THEN /\ rotation_direction' = clockwise
             /\ calls' = [calls EXCEPT ![c] =
                  [WriteValue(call, <<LovenseRotateChange>>) EXCEPT
                     !.pc = "await", !.res = None]]
        ELSE /\ UNCHANGED rotation_direction
             /\ calls' = [calls EXCEPT ![c] = Proceed(call)]
  /\ UNCHANGED <<identVars, createVars, vibrations, rotations, lock, dev, last, write_failed>>

\* the caller has the result of the call
Retire(c) ==
  /\ calls[c].pc = "done"
  /\ last' = Recorded([cmd |-> calls[c].cmd, ret |-> calls[c].ret], NoLast)
  /\ calls' = [calls EXCEPT ![c] = IdleCall]
  /\ UNCHANGED <<identVars, createVars, managerVars, dev, write_failed>>

handle(c) ==
  \/ \E cmd \in Commands(mode) : Start(c, cmd)
  \/ Acquire(c)
  \/ Update(c)
  \/ AwaitOk(c)
  \/ AwaitErr(c)
  \/ Direction(c)
  \/ Retire(c)

Next ==
  \/ try_create
  \/ \E c \in Calls : handle(c)

Spec == Init /\ [][Next]_vars

ConcSpec == InitConc /\ [][Next]_vars

\* The executor polls try_create again whenever the transport operation it
\* awaits has completed, and every subscribe, write and unsubscribe completes
\* with Ok or with an error. The stream yields what `stream` says, and
\* nothing at all when it is Silent.
FairSpec == Init /\ [][Next]_vars /\ WF_vars(try_create)

-----------------------------------------------------------------------------
(* Vocabulary of the properties *)

Done(c) == calls[c].pc = "done"

\* the step counts of the features a command of this kind addresses
StepsOf(kind) == IF kind = "Rotate" THEN attrs.rotate ELSE attrs.vibrate

\* the family has a handler for the kind
Handled(kind) == kind = "Vibrate" \/ (kind = "Rotate" /\ family = "Lovense")

\* neither one subcommand nor one per feature
BadCount(m) == Len(m.subs) \notin {1, Len(StepsOf(m.kind))}

\* some target outside [0, 1]
BadTarget(m) == \E k \in 1..Len(m.subs) : ~InUnit(m.subs[k].speed)

AllCachedZero ==
  /\ \A i \in 1..Len(vibrations) : vibrations[i] = 0
  /\ \A i \in 1..Len(rotations) : rotations[i][1] = 0

\* a device with every feature running
Running == [vibrate |-> [i \in 1..Len(attrs.vibrate) |-> 1], rotate |-> 1,
            clockwise |-> FALSE]

\* the payload sets every speed it sets to 0
DrivesToZero(p) ==
  LET d == Deliver(family, Running, p)
  IN /\ \A i \in 1..Len(d.vibrate) : d.vibrate[i] \in {0, 1}
     /\ d.rotate \in {0, 1}

\* the cache holds the quantized targets of command m
CacheHolds(m) ==
  \A k \in 1..Len(m.subs) :
    LET i == m.subs[k].index + 1
        q == Quantize(m.subs[k].speed, StepsOf(m.kind)[i])
    IN IF m.kind = "Rotate"
       THEN rotations[i] = <<q, m.subs[k].clockwise>>
       ELSE vibrations[i] = q

-----------------------------------------------------------------------------
(* C1 *)

\* C1: in every family, when a command that returned Ok is submitted again
\* with no other command in between, the second call issues no transport
\* write and returns Ok.
C1_Idempotence ==
  \A c \in Calls :
    (Done(c) /\ last.cmd = calls[c].cmd /\ last.ret = "Ok")
      => (calls[c].issued = <<>> /\ calls[c].ret = "Ok")

\* the same for the families whose handlers use the Command Manager
C1_IdempotenceManaged == Managed(family) => C1_Idempotence

\* a repeated command is answered from the cache of a LeloF1s or a Lovense
C1_WitnessManaged ==
  \E c \in Calls :
    /\ Managed(family) /\ Done(c) /\ calls[c].cmd.kind = "Vibrate"
    /\ last.cmd = calls[c].cmd /\ last.ret = "Ok"
    /\ ~AllCachedZero

-----------------------------------------------------------------------------
(* C2 *)

StopDone(c) == Done(c) /\ calls[c].cmd = StopDeviceCmd

C2_WitnessRepeat ==
  \E c \in Calls :
    /\ Managed(family) /\ StopDone(c)
    /\ last.cmd = StopDeviceCmd /\ last.ret = "Ok"

-----------------------------------------------------------------------------
(* C3 *)

\* C3: in every family, a command of a kind the family handles whose
\* subcommand count is neither 1 nor the feature count, or one of whose
\* targets lies outside [0, 1], returns ValidationError with no write issued.
C3_ValidationPrecedesIO ==
  \A c \in Calls :
    (Done(c) /\ Handled(calls[c].cmd.kind)
       /\ (BadCount(calls[c].cmd) \/ BadTarget(calls[c].cmd)))
      => (calls[c].ret = "ValidationError" /\ calls[c].issued = <<>>)

\* the same for the families whose handlers use the Command Manager
C3_ValidationManaged == Managed(family) => C3_ValidationPrecedesIO

C3_WitnessManaged ==
  \E c \in Calls :
    /\ Managed(family) /\ Done(c) /\ calls[c].cmd.kind = "Vibrate"
    /\ BadCount(calls[c].cmd) /\ Len(attrs.vibrate) = 2

-----------------------------------------------------------------------------
(* C4 *)

\* C4: on a LeloF1s and on a Lovense, whoever holds the manager's Mutex is
\* at its update and has no write created or awaited; a call with a write
\* pending does not hold the Mutex.
C4_LockNeverSpansIO ==
  Managed(family) =>
    \A c \in Calls :
      /\ lock = c => (calls[c].pc = "update" /\ calls[c].futs = <<>>)
      /\ calls[c].futs # <<>> => lock # c

\* a second call has taken the Mutex while the write of a first is pending
C4_Witness ==
  \E c \in Calls : \E o \in Calls :
    /\ c # o
    /\ calls[c].pc = "await" /\ calls[c].futs # <<>>
    /\ lock = o /\ calls[o].pc = "update"

-----------------------------------------------------------------------------
(* C5 *)

-----------------------------------------------------------------------------
(* C6 *)

\* a Vibrate command with one target for each of the two motors of an Edge
PairDone(c) ==
  /\ family = "Lovense" /\ Len(attrs.vibrate) = 2
  /\ Done(c) /\ calls[c].cmd.kind = "Vibrate" /\ calls[c].ret # "ValidationError"
  /\ Len(calls[c].cmd.subs) = 2
  /\ calls[c].cmd.subs[1].index = 0 /\ calls[c].cmd.subs[2].index = 1

Target(c, k) == Quantize(calls[c].cmd.subs[k].speed, attrs.vibrate[k])

\* C6 as stated: from any cached state, equal non-zero targets for both
\* motors produce the one write Vibrate:<v>; and unequal targets produce
\* Vibrate1:<v1>; and Vibrate2:<v2>;.
C6_BatchingAlways ==
  \A c \in Calls :
    PairDone(c) =>
      IF calls[c].cmd.subs[1].speed = calls[c].cmd.subs[2].speed
      THEN Target(c, 1) # 0 => calls[c].issued = <<LovenseVibrateAll(Target(c, 1))>>
      ELSE calls[c].issued = <<LovenseVibrateOne(1, Target(c, 1)),
                               LovenseVibrateOne(2, Target(c, 2))>>

\* C6, amended: when the command changes the cached value of both motors,
\* equal targets produce the one write Vibrate:<v>; and unequal targets
\* produce Vibrate1:<v1>; and Vibrate2:<v2>;. When it changes the cached
\* value of one motor only, the one write is Vibrate<i>:<v>; for that motor,
\* and when it changes none there is no write.
C6_Batching ==
  \A c \in Calls :
    PairDone(c) =>
      LET one == <<"Vibrate", 1>> \in calls[c].changed
          two == <<"Vibrate", 2>> \in calls[c].changed
      IN calls[c].issued =
           IF one /\ two /\ Target(c, 1) = Target(c, 2)
           THEN <<LovenseVibrateAll(Target(c, 1))>>
           ELSE (IF one THEN <<LovenseVibrateOne(1, Target(c, 1))>> ELSE <<>>)
                \o (IF two THEN <<LovenseVibrateOne(2, Target(c, 2))>> ELSE <<>>)

\* both motors changed to the same speed by one write
C6_Witness ==
  \E c \in Calls :
    /\ PairDone(c)
    /\ calls[c].changed = {<<"Vibrate", 1>>, <<"Vibrate", 2>>}
    /\ Len(calls[c].issued) = 1

\* both motors changed to different speeds by two writes
C6_WitnessUnequal ==
  \E c \in Calls :
    /\ PairDone(c)
    /\ calls[c].changed = {<<"Vibrate", 1>>, <<"Vibrate", 2>>}
    /\ Len(calls[c].issued) = 2

-----------------------------------------------------------------------------
(* C7 *)

\* a Rotate command handled with every write succeeding, right after a
\* Rotate command of the same speed that returned Ok
RotateAgain(c) ==
  /\ family = "Lovense" /\ Len(attrs.rotate) = 1
  /\ Done(c) /\ calls[c].ret = "Ok"
  /\ calls[c].cmd.kind = "Rotate" /\ last.cmd.kind = "Rotate" /\ last.ret = "Ok"
  /\ calls[c].cmd.subs[1].speed = last.cmd.subs[1].speed

\* C7: a Rotate command with the speed of the last one and the opposite
\* direction produces Rotate:<speed>; and then RotateChange;, and the new
\* direction is recorded; with the same direction it produces no write.
C7_DirectionChange ==
  \A c \in Calls :
    RotateAgain(c) =>
      LET m == calls[c].cmd.subs[1]
      IN IF m.clockwise # last.cmd.subs[1].clockwise
         THEN /\ calls[c].issued =
                   <<LovenseRotate(Quantize(m.speed, attrs.rotate[1])), LovenseRotateChange>>
              /\ rotation_direction = m.clockwise
         ELSE calls[c].issued = <<>>

-----------------------------------------------------------------------------
(* C8 *)

\* C8: when the first event of the stream is Removed, try_create ends with
\* ProtocolSpecificError once it has received the event; no adapter and no
\* Command Manager exist and the Registry is never looked up.
C8_RemovedFailsHandshake ==
  stream.kind = "Removed" =>
    /\ cpc # "created"
    /\ attrs = NoAttrs /\ vibrations = <<>> /\ rotations = <<>> /\ stop_commands = <<>>
    /\ "lookup" \notin Range(hs)
    /\ "event" \in Range(hs) => (cpc = "failed" /\ cerr = "ProtocolSpecificError")

\* try_create has received Removed
C8_Witness == stream.kind = "Removed" /\ "event" \in Range(hs) /\ cpc = "failed"

-----------------------------------------------------------------------------
(* C9 *)

IsPrefix(s, t) == Len(s) <= Len(t) /\ SubSeq(t, 1, Len(s)) = s

\* the steps a failed subscribe, identification write or unsubscribe leaves
\* completed in the order given
AbortedAfter(order) ==
  (cpc = "failed" /\ cerr = "TransportError") =>
    hs \in {SubSeq(order, 1, 0), SubSeq(order, 1, 1), SubSeq(order, 1, 4)}

\* C9 as stated: a successful construction has done subscribe, write, first
\* event, unsubscribe, parse, lookup, in this order, each after the one
\* before; a failed subscribe, write or unsubscribe ends it with no later
\* step done.
C9_OrderAsStated ==
  LET order == <<"subscribe", "write", "event", "unsubscribe", "parse", "lookup">>
  IN family = "Lovense" =>
       /\ IsPrefix(hs, order)
       /\ cpc = "created" => hs = order
       /\ (cpc = "failed" /\ cerr = "TransportError") =>
            hs \in {SubSeq(order, 1, 0), SubSeq(order, 1, 1), SubSeq(order, 1, 3)}

\* C9, amended: the order is subscribe, write, first event, parse,
\* unsubscribe, lookup: the variant token is parsed before the unsubscribe.
C9_HandshakeOrder ==
  LET order == <<"subscribe", "write", "event", "parse", "unsubscribe", "lookup">>
  IN family = "Lovense" =>
       /\ IsPrefix(hs, order)
       /\ cpc = "created" => hs = order
       /\ AbortedAfter(order)

\* a Lovense has been constructed
C9_Witness == family = "Lovense" /\ cpc = "created" /\ Len(hs) = 6

\* the unsubscribe has failed
C9_WitnessAbort == cpc = "failed" /\ cerr = "TransportError" /\ Len(hs) = 4

-----------------------------------------------------------------------------
(* C10 *)

\* a Vibrate command for one feature, in range, has been written with success
SentOne(c) ==
  /\ Done(c) /\ calls[c].ret = "Ok" /\ calls[c].issued # <<>>
  /\ calls[c].cmd.kind = "Vibrate" /\ Len(calls[c].cmd.subs) = 1
  /\ calls[c].cmd.subs[1].index < Len(attrs.vibrate)
  /\ InUnit(calls[c].cmd.subs[1].speed)

\* C10: in every family the device is sent round-half-up(t * step_count) for
\* a target t, an integer of 0..step_count; 0.5 and 0.1 are 10 and 2 of 20
\* steps and 0x32 and 0x0a of 100 steps.
C10_RoundHalfUp ==
  /\ Quantize(Half, 20) = 10 /\ Quantize(Tenth, 20) = 2
  /\ Quantize(Half, 100) = 50 /\ Quantize(Tenth, 100) = 10
  /\ \A c \in Calls :
       SentOne(c) =>
         LET i == calls[c].cmd.subs[1].index + 1
         IN /\ dev.vibrate[i] = RoundHalfUp(calls[c].cmd.subs[1].speed, attrs.vibrate[i])
            /\ dev.vibrate[i] \in 0..attrs.vibrate[i]

\* the same for the families whose handlers use the Command Manager
C10_RoundHalfUpManaged == Managed(family) => C10_RoundHalfUp

\* 0.125 of 20 steps has been sent as 3
C10_WitnessManaged ==
  \E c \in Calls :
    /\ Managed(family) /\ SentOne(c) /\ calls[c].cmd.subs[1].speed = Eighth
    /\ dev.vibrate[calls[c].cmd.subs[1].index + 1] = 3

-----------------------------------------------------------------------------
(* C11 *)

\* a Vibrate command with one subcommand, accepted by the manager of a device
\* with two vibrators
SingleDone(c) ==
  /\ Managed(family) /\ Len(attrs.vibrate) >= 2
  /\ Done(c) /\ calls[c].cmd.kind = "Vibrate" /\ calls[c].ret # "ValidationError"
  /\ Len(calls[c].cmd.subs) = 1

\* C11 as stated: a Vibrate command with one subcommand, on a device with two
\* or more vibrators, leaves the cached value of every vibrator at the target
\* quantized to that vibrator's step count.
C11_Broadcast ==
  \A c \in Calls :
    SingleDone(c) =>
      \A i \in 1..Len(vibrations) :
        vibrations[i] = Quantize(calls[c].cmd.subs[1].speed, attrs.vibrate[i])

\* C11, amended: the one subcommand addresses the vibrator of its index only:
\* that vibrator's cached value is the quantized target, no other cached value
\* changes, and the write that results carries the new value for that
\* vibrator alone (the LeloF1s packet repeats the cached values of the
\* others; the Lovense write is addressed to the one motor).
C11_SingleAddressesOne ==
  \A c \in Calls :
    SingleDone(c) =>
      LET i == calls[c].cmd.subs[1].index + 1
          q == Quantize(calls[c].cmd.subs[1].speed, attrs.vibrate[i])
      IN /\ vibrations[i] = q
         /\ calls[c].changed \subseteq {<<"Vibrate", i>>}
         /\ calls[c].issued =
              IF calls[c].changed = {} THEN <<>>
              ELSE IF family = "LeloF1s" THEN << <<1>> \o vibrations >>
              ELSE << <<"Vibrate">> \o ToDecimal(i) \o <<":">> \o ToDecimal(q) \o <<";">> >>

\* one subcommand has changed one vibrator and the other is at another speed
C11_Witness ==
  \E c \in Calls :
    /\ SingleDone(c) /\ calls[c].changed # {} /\ calls[c].ret = "Ok"
    /\ \E i \in 1..Len(vibrations) :
         vibrations[i] # Quantize(calls[c].cmd.subs[1].speed, attrs.vibrate[i])

-----------------------------------------------------------------------------
(* C12 *)

\* the vibrators a command addresses
Addressed(m) == {<<"Vibrate", m.subs[k].index + 1>> : k \in 1..Len(m.subs)}

\* a Vibrate command accepted by the manager of a LeloF1s
F1sDone(c) ==
  /\ family = "LeloF1s"
  /\ Done(c) /\ calls[c].cmd.kind = "Vibrate" /\ calls[c].ret # "ValidationError"

\* C12: on a LeloF1s a Vibrate command changes cached values of the vibrators
\* it addresses only, which then hold its quantized targets; when one of them
\* has changed, the one write is 0x01 followed by the cached value of every
\* vibrator in index order, and when none has changed there is no write. On a
\* fresh device, vibrator 0 to 0.5 gives [0x01, 0x32, 0x00].
C12_FullStatePacket ==
  \A c \in Calls :
    F1sDone(c) =>
      /\ calls[c].changed \subseteq Addressed(calls[c].cmd)
      /\ CacheHolds(calls[c].cmd)
      /\ calls[c].issued =
           IF calls[c].changed = {} THEN <<>> ELSE << <<1>> \o vibrations >>
      /\ (~calls[c].nonzero /\ calls[c].cmd = VibrateCmd(<<Sub(0, Half, FALSE)>>))
           => calls[c].issued = << <<1, 50, 0>> >>

\* the first command of the test: vibrator 0 of a device at rest to 0.5
C12_Witness ==
  \E c \in Calls :
    /\ F1sDone(c) /\ ~calls[c].nonzero /\ calls[c].ret = "Ok"
    /\ calls[c].cmd = VibrateCmd(<<Sub(0, Half, FALSE)>>)
    /\ calls[c].issued = << <<1, 50, 0>> >>

\* vibrator 1 changed while vibrator 0 runs: the packet repeats vibrator 0
C12_WitnessOther ==
  \E c \in Calls :
    /\ F1sDone(c) /\ calls[c].changed = {<<"Vibrate", 2>>}
    /\ Len(calls[c].issued) = 1 /\ calls[c].issued[1][2] # 0

-----------------------------------------------------------------------------
(* C13 *)

\* C13: on a LeloF1s and on a Lovense, whatever the number and the kinds of
\* the calls in flight, at most one call is at its update, that call holds
\* the Mutex, and a step that changes a cached value is the whole update of
\* the call that holds the Mutex.
C13_MutualExclusion ==
  [][ Managed(family) =>
        /\ \A c \in Calls : \A o \in Calls :
             (calls[c].pc = "update" /\ calls[o].pc = "update") => c = o
        /\ \A c \in Calls : calls[c].pc = "update" => lock = c
        /\ (cpc = "created" /\ <<vibrations, rotations>>' # <<vibrations, rotations>>)
             => /\ lock \in Calls
                /\ calls[lock].pc = "update"
                /\ calls'[lock].pc # "update"
                /\ \A o \in Calls \ {lock} : calls'[o] = calls[o] ]_vars

\* a call waits for the Mutex while another is at its update, the cache
\* already changed by an earlier update
C13_Witness ==
  \E c \in Calls : \E o \in Calls :
    /\ Managed(family) /\ c # o
    /\ calls[c].pc = "update" /\ lock = c
    /\ calls[o].pc = "lock"
    /\ ~AllCachedZero

-----------------------------------------------------------------------------
(* C14 *)

\* try_create waits for the first event of a stream that yields nothing
SilentWait == family = "Lovense" /\ stream.kind = "Silent" /\ cpc = "wait"

\* C14: when subscribe and the identification write have succeeded and the
\* stream yields nothing, construction eventually fails with
\* ProtocolSpecificError.
C14_SilentEventuallyFails ==
  SilentWait ~> (cpc = "failed" /\ cerr = "ProtocolSpecificError")

-----------------------------------------------------------------------------
(* C15 *)

\* the first event is a Notification that is no valid identification
\* response: not UTF-8, or a variant token the Registry has no entry for
InvalidResponse ==
  /\ family = "Lovense" /\ stream.kind = "Notification"
  /\ \/ ~IsUtf8(stream.payload)
     \/ get_attributes(SplitFirst(stream.payload)) = None

\* C15: after such a Notification construction neither panics nor creates
\* an adapter; once it has decoded a payload that is not text, or looked up
\* a token that has no entry, it has returned ProtocolSpecificError.
C15_InvalidResponseReturns ==
  InvalidResponse =>
    /\ cpc \notin {"panicked", "created"}
    /\ attrs = NoAttrs
    /\ ("event" \in Range(hs) /\ ~IsUtf8(stream.payload))
         => (cpc = "failed" /\ cerr = "ProtocolSpecificError")
    /\ "lookup" \in Range(hs)
         => (cpc = "failed" /\ cerr = "ProtocolSpecificError")

\* construction never panics on a response that is text and names a variant
\* of the Registry
C15_ValidResponseNeverPanics ==
  (family = "Lovense" /\ ~InvalidResponse) => cpc # "panicked"

-----------------------------------------------------------------------------
(* C16 *)

\* a Vibrate command that has changed both motors of an Edge to two
\* different speeds
EachDone(c) ==
  /\ PairDone(c)
  /\ calls[c].changed = {<<"Vibrate", 1>>, <<"Vibrate", 2>>}
  /\ Target(c, 1) # Target(c, 2)

\* C16: such a command creates the two writes Vibrate1:<v1>; and
\* Vibrate2:<v2>;, each once; it returns Ok only when the device has both
\* values; otherwise it returns the TransportError of the first write that
\* has failed, every write before that one delivered.
C16_PerFeatureWrites ==
  \A c \in Calls :
    EachDone(c) =>
      /\ calls[c].issued =
           << <<"Vibrate", "1", ":">> \o ToDecimal(Target(c, 1)) \o <<";">>,
              <<"Vibrate", "2", ":">> \o ToDecimal(Target(c, 2)) \o <<";">> >>
      /\ calls[c].ret \in {"Ok", "TransportError"}
      /\ calls[c].ret = "Ok" =>
           (calls[c].failed = 0 /\ dev.vibrate = <<Target(c, 1), Target(c, 2)>>)
      /\ calls[c].ret = "TransportError" =>
           /\ calls[c].failed \in {1, 2}
           /\ calls[c].failed = 2 => dev.vibrate[1] = Target(c, 1)

\* the second of the two writes has failed after the first was delivered
C16_Witness ==
  \E c \in Calls :
    /\ EachDone(c) /\ calls[c].ret = "TransportError" /\ calls[c].failed = 2
    /\ dev.vibrate[1] = Target(c, 1) /\ dev.vibrate[2] # Target(c, 2)

\* both writes were delivered
C16_WitnessOk ==
  \E c \in Calls :
    /\ EachDone(c) /\ calls[c].ret = "Ok"
    /\ dev.vibrate = <<Target(c, 1), Target(c, 2)>>

-----------------------------------------------------------------------------
(* C17 *)

\* every call has returned
Quiescent == \A c \in Calls : calls[c].pc \in {"idle", "done"}

\* the speed the device last received for each feature is the cached one
SpeedsAgree ==
  /\ dev.vibrate = vibrations
  /\ \A i \in 1..Len(rotations) : dev.rotate = rotations[i][1]

\* C17: on a LeloF1s and on a Lovense, when no transport write has failed
\* and every call has returned, overlapping or not, the speed the device
\* last received for each feature equals the cached value of that feature.
C17_QuiescentAgreement ==
  (Managed(family) /\ cpc = "created" /\ ~write_failed /\ Quiescent) => SpeedsAgree

-----------------------------------------------------------------------------
(* C18 *)

\* a Lovense with a rotator and no call in flight (a Rotate call is in
\* flight from its submission, alone or within a Stop, to its return)
RotatorAtRest ==
  /\ family = "Lovense" /\ cpc = "created" /\ Len(rotations) = 1
  /\ \A c \in Calls : calls[c].pc = "idle"

\* C18: on a Lovense with no Rotate call in flight, after any Rotate and
\* Stop commands, failed writes included, the rotation_direction flag is the
\* direction the manager has stored for rotator 0 and is the direction of
\* the device, which starts counter-clockwise and turns with each delivered
\* RotateChange;.
C18_DirectionAgreement ==
  RotatorAtRest =>
    /\ rotation_direction = rotations[1][2]
    /\ rotation_direction = dev.clockwise

\* the same while no transport write has failed
C18_DirectionAgreementNoFailure ==
  (RotatorAtRest /\ ~write_failed) => C18_DirectionAgreement

-----------------------------------------------------------------------------
(* C19 *)

\* construction has returned, with an adapter or with an error
Returned == family = "Lovense" /\ cpc \in {"created", "failed"}

\* the unsubscribe has been awaited: it has succeeded, or it is its error
\* that construction has returned
UnsubscribeIssued ==
  \/ "unsubscribe" \in Range(hs)
  \/ (cpc = "failed" /\ cerr = "TransportError" /\ "parse" \in Range(hs))

\* C19: a construction that has subscribed and has returned, with success or
\* with any error, has issued the unsubscribe.
C19_SubscriptionReleased ==
  (Returned /\ "subscribe" \in Range(hs)) => UnsubscribeIssued

\* the same of a construction that has returned an adapter, where the
\* subscription is no longer active
C19_ReleasedOnSuccess ==
  (family = "Lovense" /\ cpc = "created") =>
    ("unsubscribe" \in Range(hs) /\ ~subscribed)

====
